---- MODULE Spec2Model ----
(***************************************************************************)
(* ISS tracker (src/iss_tracker.py): the Redis-backed state-vector cache,  *)
(* get_iss_data / parse_iss_data, and the Flask routes built on them.      *)
(*                                                                         *)
(* Values.  A datetime is an integer count of microseconds.  A string in   *)
(* isoformat() form is the tuple <<sec>> (no fractional part printed) or   *)
(* <<sec, micro>>.  A raw EPOCH text is a record [form, sec, milli].  A    *)
(* text holding a number is [kind |-> "numeral", val |-> n].               *)
(***************************************************************************)
EXTENDS Integers, Sequences, FiniteSets, TLC

\* ---------------------------------------------------------------- bounds
MaxRecords == 2      \* longest fetched batch of stateVector records
MaxTick == 2         \* epochs lie on half-second ticks 0..MaxTick
MaxArg == 2          \* largest offset / limit query argument
NumProcs == 2        \* concurrent get_iss_data calls
MaxSpeed == 10       \* largest velocity component handed to compute_speed

\* ------------------------------------------------------------- constants
MicrosPerSecond == 1000000
MillisPerSecond == 1000

\* ------------------------------------------------------ datetime <-> text
\* datetime.strptime(text, "%Y-%jT%H:%M:%S.%fZ"): ValueError unless the text
\* is in day-of-year form; the fraction is read as milliseconds.
StrptimeOk(text) == text.form = "doy"

Strptime(text) ==
    text.sec * MicrosPerSecond + text.milli * (MicrosPerSecond \div MillisPerSecond)

\* datetime.isoformat(): the fraction is printed only when it is not zero.
IsoFormat(dt) ==
    IF dt % MicrosPerSecond = 0
    THEN << dt \div MicrosPerSecond >>
    ELSE << dt \div MicrosPerSecond, dt % MicrosPerSecond >>

\* datetime.isoformat(timespec="seconds"): the fraction is dropped.
IsoFormatSeconds(dt) == << dt \div MicrosPerSecond >>

\* datetime.fromisoformat()
FromIsoFormat(s) ==
    IF Len(s) = 1 THEN s[1] * MicrosPerSecond ELSE s[1] * MicrosPerSecond + s[2]

\* float(text)
FloatOk(text) == text.kind = "numeral"

Float(text) == text.val

\* json.dumps(entry) / json.loads(value) of an entry whose epoch is a string
JsonDumps(entry) == << "json", entry.epoch, entry.position, entry.velocity >>

JsonLoads(value) == [epoch |-> value[2], position |-> value[3], velocity |-> value[4]]

\* ------------------------------------------------------------ input sets
Epochs == { k * (MicrosPerSecond \div 2) : k \in 0..MaxTick }

Times == { k * (MicrosPerSecond \div 4) : k \in 0..(2 * MaxTick) }

\* the sample vectors of src/test_iss_tracker.py
Payloads ==
    { [position |-> <<100, 200, 300>>, velocity |-> <<1, 2, 2>>],
      [position |-> <<150, 250, 350>>, velocity |-> <<3, 4, 0>>] }

Numeral(n) == [kind |-> "numeral", val |-> n]

Component(n) == [text |-> Numeral(n)]

EpochText(dt) ==
    [form |-> "doy", sec |-> dt \div MicrosPerSecond,
     milli |-> (dt % MicrosPerSecond) \div (MicrosPerSecond \div MillisPerSecond)]

\* one <stateVector> element as xmltodict renders it
RawVec(dt, p) ==
    [EPOCH |-> EpochText(dt),
     X |-> Component(p.position[1]), Y |-> Component(p.position[2]),
     Z |-> Component(p.position[3]),
     X_DOT |-> Component(p.velocity[1]), Y_DOT |-> Component(p.velocity[2]),
     Z_DOT |-> Component(p.velocity[3])]

ValidVecs == { RawVec(dt, p) : dt \in Epochs, p \in Payloads }

SamplePayload == CHOOSE p \in Payloads : p.velocity = <<1, 2, 2>>

\* the three malformed shapes: a missing field, a non-numeric component, an
\* epoch in calendar form
VecMissingField ==
    [f \in {"EPOCH", "X", "Y", "Z", "X_DOT", "Y_DOT"} |-> RawVec(0, SamplePayload)[f]]

VecNonNumeric == [RawVec(0, SamplePayload) EXCEPT !.Y = [text |-> [kind |-> "word", val |-> 0]]]

VecBadEpoch == [RawVec(0, SamplePayload) EXCEPT !.EPOCH = [form |-> "calendar", sec |-> 0, milli |-> 0]]

MalformedVecs == { VecMissingField, VecNonNumeric, VecBadEpoch }

RawVecs == ValidVecs \cup MalformedVecs

SeqsUpTo(S, n) == UNION { [1..m -> S] : m \in 0..n }

\* the XML documents the source may serve: a batch of records
Batches == SeqsUpTo(RawVecs, MaxRecords)

\* the texts a fetch may return: "", a text that is not XML, an OEM document
EmptyText == [kind |-> "empty", vecs |-> << >>]

GarbageText == [kind |-> "garbage", vecs |-> << >>]

Documents == { [kind |-> "xml", vecs |-> b] : b \in Batches }

\* what requests.get does: a response, or a RequestException
FetchResponses ==
    { [failure |-> "none", text |-> d] : d \in Documents \cup {GarbageText, EmptyText} }
        \cup { [failure |-> "RequestException", text |-> EmptyText] }

\* ---------------------------------------------------------- fetch_iss_data
FetchIssData(resp) ==
    IF resp.failure = "none" THEN resp.text ELSE EmptyText

\* ---------------------------------------------------------- the Redis hash
EmptyCache == << >>

HLen(c) == Cardinality(DOMAIN c)

\* faulty variant: the write appends to the field instead of overwriting it
HSetAppend(c, key, value) ==
    [k \in (DOMAIN c) \cup {key} |->
        IF k = key THEN (IF key \in DOMAIN c THEN c[key] \o value ELSE value) ELSE c[k]]

HSet(c, key, value) ==
    [k \in (DOMAIN c) \cup {key} |-> IF k = key THEN value ELSE c[k]]

\* the orders in which HVALS may enumerate the fields
Orders(c) ==
    { o \in [1..HLen(c) -> DOMAIN c] : \A i, j \in 1..HLen(c) : o[i] = o[j] => i = j }

HVals(c, order) == [i \in 1..Len(order) |-> c[order[i]]]

\* ---------------------------------------------------------- parse_iss_data
\* xmltodict.parse(...)[...]["stateVector"]: a list when the element repeats,
\* a single dict when it occurs once, absent when it does not occur
StateVectorsExc(doc) ==
    IF doc.kind = "garbage" THEN "ExpatError"
    ELSE IF Len(doc.vecs) = 0 THEN "KeyError"
    ELSE "none"

\* what "for vec in state_vectors" yields: the elements of a list, the keys
\* of a dict
StateVectorItems(doc) ==
    IF Len(doc.vecs) = 1
    THEN << [kind |-> "str", val |-> << >>] >>
    ELSE [i \in 1..Len(doc.vecs) |-> [kind |-> "dict", val |-> doc.vecs[i]]]

CompFields == << "X", "Y", "Z", "X_DOT", "Y_DOT", "Z_DOT" >>

FieldExc(vec, f) ==
    IF f \notin DOMAIN vec THEN "KeyError"
    ELSE IF "text" \notin DOMAIN vec[f] THEN "KeyError"
    ELSE IF ~FloatOk(vec[f].text) THEN "ValueError"
    ELSE "none"

\* the exception lines 45-59 raise on one loop item, "none" when they do not
ParseVecExc(item) ==
    IF item.kind = "str" THEN "TypeError"
    ELSE IF "EPOCH" \notin DOMAIN item.val THEN "KeyError"
    ELSE IF ~StrptimeOk(item.val.EPOCH) THEN "ValueError"
    ELSE LET bad == { i \in 1..Len(CompFields) : FieldExc(item.val, CompFields[i]) # "none" }
             first == CHOOSE i \in bad : \A j \in bad : i <= j
         IN  IF bad = {} THEN "none" ELSE FieldExc(item.val, CompFields[first])

\* the entry of lines 45-59: epoch as isoformat() text, six floats
ParseEntry(vec) ==
    [epoch |-> IsoFormat(Strptime(vec.EPOCH)),
     position |-> << Float(vec.X.text), Float(vec.Y.text), Float(vec.Z.text) >>,
     velocity |-> << Float(vec.X_DOT.text), Float(vec.Y_DOT.text), Float(vec.Z_DOT.text) >>]

\* lines 64-65
EpochsToDatetime(data) ==
    [i \in 1..Len(data) |-> [data[i] EXCEPT !.epoch = FromIsoFormat(@)]]

\* except (KeyError, ValueError, TypeError)
ParseCatches == { "KeyError", "ValueError", "TypeError" }

\* the loop of lines 43-62 from item i on; faultAt is the number of the HSET
\* that the cache refuses (0: none)
RECURSIVE ParseLoop(_, _, _, _, _)
ParseLoop(items, i, c, acc, faultAt) ==
    IF i > Len(items)
    THEN [exc |-> "none", data |-> acc, cache |-> c]
    ELSE IF ParseVecExc(items[i]) # "none"
    THEN [exc |-> ParseVecExc(items[i]), data |-> acc, cache |-> c]
    ELSE IF faultAt = Len(acc) + 1
    THEN [exc |-> "RedisError", data |-> acc, cache |-> c]
    ELSE LET entry == ParseEntry(items[i].val)
         IN  ParseLoop(items, i + 1, HSet(c, entry.epoch, JsonDumps(entry)),
                       Append(acc, entry), faultAt)

\* parse_iss_data: the returned list, the cache it leaves, the exception that
\* escapes it ("none" when it returns), the number of fields it wrote
ParseIssData(doc, c, faultAt) ==
    LET body == IF StateVectorsExc(doc) # "none"
                THEN [exc |-> StateVectorsExc(doc), data |-> << >>, cache |-> c]
                ELSE ParseLoop(StateVectorItems(doc), 1, c, << >>, faultAt)
    IN  [data   |-> IF body.exc = "none" THEN EpochsToDatetime(body.data) ELSE << >>,
         cache  |-> body.cache,
         raised |-> IF body.exc \in ParseCatches THEN "none" ELSE body.exc,
         caught |-> IF body.exc \in ParseCatches THEN body.exc ELSE "none",
         writes |-> Len(body.data)]

\* ------------------------------------------------------------ get_iss_data
\* faulty variant: the size check is ignored and every call fetches
CacheIsEmptyAlways(n) == TRUE

\* line 75: "if rd.hlen(...) == 0"
CacheIsEmpty(n) == n = 0

\* faulty variant: get_iss_data catches only what parse_iss_data catches
GetIssDataCatchesParseOnly(exc) == exc \in ParseCatches

\* line 86: "except Exception" catches every exception
GetIssDataCatches(exc) == TRUE

\* lines 80-85: the entries read back from the values HVALS returned
ReadEntries(values) ==
    [i \in 1..Len(values) |->
        [JsonLoads(values[i]) EXCEPT !.epoch = FromIsoFormat(@)]]

\* one run of the try block: what it computed, the cache it left, the
\* exception it raised, the one parse_iss_data caught, and what it did
Run(data, c, raised, caught, hlen, fetched, xml, writes) ==
    [data |-> data, cache |-> c, raised |-> raised, caught |-> caught, hlen |-> hlen,
     fetched |-> fetched, xml |-> xml, writes |-> writes]

\* lines 76-79
FetchAndParse(c, resp, faultAt) ==
    LET xml == FetchIssData(resp)
        parsed == ParseIssData(xml, c, faultAt)
    IN  IF xml.kind = "empty"
        THEN Run(<< >>, c, "none", "none", HLen(c), TRUE, xml, 0)
        ELSE Run(parsed.data, parsed.cache, parsed.raised, parsed.caught, HLen(c), TRUE,
                 xml, parsed.writes)

\* lines 80-85
ReadCache(c, order, fails) ==
    IF fails
    THEN Run(<< >>, c, "RedisError", "none", HLen(c), FALSE, EmptyText, 0)
    ELSE Run(ReadEntries(HVals(c, order)), c, "none", "none", HLen(c), FALSE, EmptyText, 0)

\* lines 86-88 applied to a run of the try block
Returned(run) ==
    IF run.raised = "none" THEN run
    ELSE IF GetIssDataCatches(run.raised)
    THEN [run EXCEPT !.data = << >>, !.raised = "none", !.caught = run.raised]
    ELSE [run EXCEPT !.data = << >>]

\* every way get_iss_data can run on cache c: the size check may fail; on an
\* empty cache any fetch response may arrive and any one HSET may fail; on a
\* non-empty cache HVALS may enumerate in any order, or fail
GetIssDataRuns(c) ==
    { Returned(Run(<< >>, c, "RedisError", "none", 0 - 1, FALSE, EmptyText, 0)) }
        \cup
    ( IF CacheIsEmpty(HLen(c))
      THEN { Returned(FetchAndParse(c, resp, faultAt)) :
                resp \in FetchResponses, faultAt \in 0..MaxRecords }
      ELSE { Returned(ReadCache(c, order, fails)) :
                order \in Orders(c), fails \in BOOLEAN } )

\* ------------------------------------------------------------- kinematics
\* math.sqrt on the sums of squares the sample vectors give (exact squares)
Sqrt(n) == CHOOSE r \in 0..n : r * r <= n /\ (r + 1) * (r + 1) > n

\* faulty variant: the third component is left out of the norm
ComputeSpeedPlanar(velocity) ==
    Sqrt(velocity[1] * velocity[1] + velocity[2] * velocity[2])

\* compute_speed
ComputeSpeed(velocity) ==
    Sqrt(velocity[1] * velocity[1] + velocity[2] * velocity[2] + velocity[3] * velocity[3])

RECURSIVE SumSeq(_)
SumSeq(xs) == IF xs = << >> THEN 0 ELSE Head(xs) + SumSeq(Tail(xs))

\* faulty variant: the sum is divided by the length even when there is none
ComputeAverageSpeedUnguarded(data) ==
    LET speeds == [i \in 1..Len(data) |-> ComputeSpeed(data[i].velocity)]
    IN  [num |-> SumSeq(speeds), den |-> Len(speeds)]

\* compute_average_speed, as the fraction num/den
ComputeAverageSpeed(data) ==
    LET speeds == [i \in 1..Len(data) |-> ComputeSpeed(data[i].velocity)]
    IN  IF Len(speeds) # 0
        THEN [num |-> SumSeq(speeds), den |-> Len(speeds)]
        ELSE [num |-> 0, den |-> 1]

\* f"{x:.2f}" of the fraction num/den: the hundredths, nearest, ties to even
Format2f(q) ==
    LET scaled == 100 * q.num
        floor == scaled \div q.den
        twice == 2 * (scaled % q.den)
    IN  IF twice < q.den THEN floor
        ELSE IF twice > q.den THEN floor + 1
        ELSE IF floor % 2 = 0 THEN floor ELSE floor + 1

\* ------------------------------------------------------- find_closest_epoch
Abs(x) == IF x < 0 THEN 0 - x ELSE x

\* faulty variant: the key is the signed difference, not its absolute value
RECURSIVE MinScanSigned(_, _, _, _)
MinScanSigned(data, i, best, now) ==
    IF i > Len(data) THEN best
    ELSE IF data[i].epoch - now < data[best].epoch - now
    THEN MinScanSigned(data, i + 1, i, now)
    ELSE MinScanSigned(data, i + 1, best, now)

\* min(data, key=...): scans left to right and keeps the first smallest
RECURSIVE MinScan(_, _, _, _)
MinScan(data, i, best, now) ==
    IF i > Len(data) THEN best
    ELSE IF Abs(data[i].epoch - now) < Abs(data[best].epoch - now)
    THEN MinScan(data, i + 1, i, now)
    ELSE MinScan(data, i + 1, best, now)

\* the index in data of the entry find_closest_epoch returns (data not empty)
FindClosestEpoch(data, now) == MinScan(data, 2, 1, now)

\* ------------------------------------------- location and reverse geocoding
\* compute_location_astropy: the epoch reaches the transform in whole seconds
\* (line 111-112); the transform itself is astropy's
ComputeLocationAstropy(entry) ==
    [lat |-> << "lat", entry.position, entry.epoch \div MicrosPerSecond >>,
     lon |-> << "lon", entry.position, entry.epoch \div MicrosPerSecond >>,
     alt |-> << "alt", entry.position, entry.epoch \div MicrosPerSecond >>]

GeoOutcomes ==
    { [kind |-> "found", address |-> "Houston, Texas, United States"],
      [kind |-> "notfound", address |-> ""],
      [kind |-> "failure", address |-> ""] }

\* faulty variant: a failed lookup is reported as a lookup that found nothing
ReverseGeocodeSilent(outcome) ==
    IF outcome.kind = "found" THEN outcome.address ELSE "Geoposition not found"

\* reverse_geocode
ReverseGeocode(outcome) ==
    IF outcome.kind = "failure" THEN "Geoposition lookup failed"
    ELSE IF outcome.kind = "found" THEN outcome.address
    ELSE "Geoposition not found"

\* ------------------------------------------------------- list operations
\* data.sort(key=epoch) is stable: an entry goes after those not later than it
RECURSIVE InsertByEpoch(_, _)
InsertByEpoch(sorted, e) ==
    IF sorted = << >> THEN << e >>
    ELSE IF Head(sorted).epoch <= e.epoch
    THEN << Head(sorted) >> \o InsertByEpoch(Tail(sorted), e)
    ELSE << e >> \o sorted

\* faulty variant: the sort is missing
SortByEpochNone(data) == data

RECURSIVE SortByEpoch(_)
SortByEpoch(data) ==
    IF data = << >> THEN << >>
    ELSE InsertByEpoch(SortByEpoch(SubSeq(data, 1, Len(data) - 1)), data[Len(data)])

\* a slice bound as Python normalises it against a list of length n
SliceBound(i, n) ==
    IF i < 0 THEN (IF i + n < 0 THEN 0 ELSE i + n)
    ELSE IF i > n THEN n ELSE i

\* seq[start:stop] with 0-based bounds
PySlice(seq, start, stop) ==
    SubSeq(seq, SliceBound(start, Len(seq)) + 1, SliceBound(stop, Len(seq)))

\* faulty variant: the key is compared with the full isoformat() text
FirstMatchFull(data, key) ==
    LET hits == { i \in 1..Len(data) : IsoFormat(data[i].epoch) = key }
    IN  IF hits = {} THEN 0 ELSE CHOOSE i \in hits : \A j \in hits : i <= j

\* the first entry whose epoch, printed to whole seconds, equals the key
\* (0 when there is none): the "for entry in data: if ... == epoch" loops
FirstMatch(data, key) ==
    LET hits == { i \in 1..Len(data) : IsoFormatSeconds(data[i].epoch) = key }
    IN  IF hits = {} THEN 0 ELSE CHOOSE i \in hits : \A j \in hits : i <= j

\* --------------------------------------------------------------- the routes
Response(status, body, calls) == [status |-> status, body |-> body, calls |-> calls]

\* faulty variant: the message goes out without its status code
NotFoundOk == Response(200, [message |-> "Epoch not found"], {})

NotFound == Response(404, [message |-> "Epoch not found"], {})

\* faulty variant: the handlers catch only what parse_iss_data catches
HandlerCatchesParseOnly(exc) == exc \in ParseCatches

\* lines 143, 161, 179, 201, 234: "except Exception" catches every exception
HandlerCatches(exc) == TRUE

\* what becomes of an exception raised inside a handler's try block: the
\* error message with status 500, or the exception leaving the handler
Failure(prefix, exc, calls) ==
    IF HandlerCatches(exc)
    THEN Response(500, [error |-> prefix, exc |-> exc], calls)
    ELSE Response(0, [uncaught |-> exc], calls)

\* epochs(): lines 136-144
EpochsResponse(run, offset, limit) ==
    LET sorted == SortByEpoch(run.data)
        subset == IF limit.given
                  THEN PySlice(sorted, offset, offset + limit.val)
                  ELSE PySlice(sorted, offset, Len(sorted))
    IN  IF run.raised # "none"
        THEN Failure("Error retrieving epochs", run.raised, {})
        ELSE Response(200,
                      [lines |-> [i \in 1..Len(subset) |-> IsoFormatSeconds(subset[i].epoch)]],
                      {})

\* epoch_detail(): lines 150-162
EpochDetailResponse(run, key) ==
    LET i == FirstMatch(run.data, key)
    IN  IF run.raised # "none"
        THEN Failure("Error retrieving epoch", run.raised, {})
        ELSE IF i = 0 THEN NotFound
        ELSE Response(200,
                      [Epoch |-> IsoFormatSeconds(run.data[i].epoch),
                       Position |-> run.data[i].position,
                       Velocity |-> run.data[i].velocity],
                      {})

\* epoch_speed(): lines 168-180
EpochSpeedResponse(run, key) ==
    LET i == FirstMatch(run.data, key)
    IN  IF run.raised # "none"
        THEN Failure("Error computing speed", run.raised, {})
        ELSE IF i = 0 THEN NotFound
        ELSE Response(200,
                      [Epoch |-> key,
                       Speed |-> Format2f([num |-> ComputeSpeed(run.data[i].velocity), den |-> 1])],
                      {"compute_speed"})

\* epoch_location(): lines 186-202
EpochLocationResponse(run, key, transformOk, geo) ==
    LET i == FirstMatch(run.data, key)
        loc == ComputeLocationAstropy(run.data[i])
    IN  IF run.raised # "none"
        THEN Failure("Error computing location", run.raised, {})
        ELSE IF i = 0 THEN NotFound
        ELSE IF ~transformOk
        THEN Failure("Error computing location", "TransformError",
                     {"compute_location_astropy"})
        ELSE Response(200,
                      [Epoch |-> key, Latitude |-> loc.lat, Longitude |-> loc.lon,
                       Altitude |-> loc.alt, Geoposition |-> ReverseGeocode(geo)],
                      {"compute_location_astropy", "reverse_geocode"})

\* faulty variant: the emptiness check is missing
NoDataNever(data) == FALSE

\* line 215: "if not data"
NoData(data) == Len(data) = 0

\* min() of an empty list raises ValueError
FindClosestEpochExc(data) == IF Len(data) = 0 THEN "ValueError" ELSE "none"

\* now(): lines 213-235
NowResponse(run, nowTime, transformOk, geo) ==
    LET closest == run.data[FindClosestEpoch(run.data, nowTime)]
        loc == ComputeLocationAstropy(closest)
    IN  IF run.raised # "none"
        THEN Failure("Error retrieving current ISS data", run.raised, {})
        ELSE IF NoData(run.data)
        THEN Response(500, [message |-> "No ISS data available"], {})
        ELSE IF FindClosestEpochExc(run.data) # "none"
        THEN Failure("Error retrieving current ISS data", FindClosestEpochExc(run.data),
                     {"find_closest_epoch"})
        ELSE IF ~transformOk
        THEN Failure("Error retrieving current ISS data", "TransformError",
                     {"find_closest_epoch", "compute_average_speed",
                      "compute_location_astropy"})
        ELSE Response(200,
                      [ClosestEpoch |-> IsoFormatSeconds(closest.epoch),
                       Position |-> closest.position,
                       Velocity |-> closest.velocity,
                       Speed |-> Format2f([num |-> ComputeSpeed(closest.velocity), den |-> 1]),
                       AverageSpeed |-> Format2f(ComputeAverageSpeed(run.data)),
                       Latitude |-> loc.lat, Longitude |-> loc.lon,
                       Altitude |-> loc.alt, Geoposition |-> ReverseGeocode(geo)],
                      {"find_closest_epoch", "compute_average_speed",
                       "compute_location_astropy", "reverse_geocode"})

\* ---------------------------------------------------------------- state
VARIABLES
    cache,     \* the Redis hash "iss_data": isoformat() key -> JSON value
    last,      \* the request handled last: its arguments, its run of
               \* get_iss_data, its response
    source,    \* the document the NASA URL serves to concurrent callers
    calls,     \* the concurrent get_iss_data calls: position and locals
    kin        \* a direct call of compute_speed / compute_average_speed:
               \* its arguments and what it returned

vars == << cache, last, source, calls, kin >>

\* ------------------------------------------------------- request arguments
Keys ==
    { IsoFormatSeconds(e) : e \in Epochs } \cup { IsoFormat(e) : e \in Epochs }
        \cup { << (MaxTick \div 2) + 1 >> }

Offsets == 0..MaxArg

Limits ==
    { [given |-> FALSE, val |-> 0] } \cup { [given |-> TRUE, val |-> n] : n \in (0 - MaxArg)..MaxArg }

NoLimit == [given |-> FALSE, val |-> 0]

\* what a request brings with it: its path and query arguments, the clock
\* reading, and what the transform and the geocoder will answer if called
Args(key, offset, limit, nowTime, transformOk, geo) ==
    [key |-> key, offset |-> offset, limit |-> limit, now |-> nowTime,
     transformOk |-> transformOk, geo |-> geo]

NoGeo == [kind |-> "notfound", address |-> ""]

NoArgs == Args(<< >>, 0, NoLimit, 0, TRUE, NoGeo)

Handled(route, args, run, resp) ==
    [route |-> route, args |-> args, run |-> run,
     status |-> resp.status, body |-> resp.body, calls |-> resp.calls]

NoRequest ==
    Handled("none", NoArgs,
            Returned(Run(<< >>, EmptyCache, "none", "none", 0, FALSE, EmptyText, 0)),
            Response(0, [message |-> ""], {}))

\* one concurrent get_iss_data call: where it stands, the size it saw, the
\* text it fetched, the loop's item number and list, what it returned
IdleCall ==
    [pc |-> "idle", hlen |-> 0, xml |-> EmptyText, i |-> 0, acc |-> << >>,
     data |-> << >>, caught |-> "none", raised |-> "none"]

Procs == 1..NumProcs

\* no kinematics call under way
NoKin ==
    [fn |-> "none", velocity |-> << 0, 0, 0 >>, data |-> << >>, speed |-> 0,
     average |-> [num |-> 0, den |-> 1]]

Init ==
    /\ cache = EmptyCache
    /\ last = NoRequest
    /\ source = EmptyText
    /\ calls = [p \in Procs |-> IdleCall]
    /\ kin = NoKin

\* --------------------------------------- requests served one after another
\* a direct call of get_iss_data(), as src/test_iss_tracker.py makes
GetIssData ==
    /\ last.route = "none"
    /\ \E run \in GetIssDataRuns(cache) :
        /\ cache' = run.cache
        /\ last' = Handled("get_iss_data", NoArgs, run, Response(0, [message |-> ""], {}))
    /\ UNCHANGED << source, calls, kin >>

\* GET /epochs?limit=&offset=
GetEpochs ==
    /\ last.route = "none"
    /\ \E run \in GetIssDataRuns(cache), offset \in Offsets, limit \in Limits :
        /\ cache' = run.cache
        /\ last' = Handled("epochs", Args(<< >>, offset, limit, 0, TRUE, NoGeo), run,
                           EpochsResponse(run, offset, limit))
    /\ UNCHANGED << source, calls, kin >>

\* GET /epochs/<epoch>
GetEpochDetail ==
    /\ last.route = "none"
    /\ \E run \in GetIssDataRuns(cache), key \in Keys :
        /\ cache' = run.cache
        /\ last' = Handled("epoch_detail", Args(key, 0, NoLimit, 0, TRUE, NoGeo), run,
                           EpochDetailResponse(run, key))
    /\ UNCHANGED << source, calls, kin >>

\* GET /epochs/<epoch>/speed
GetEpochSpeed ==
    /\ last.route = "none"
    /\ \E run \in GetIssDataRuns(cache), key \in Keys :
        /\ cache' = run.cache
        /\ last' = Handled("epoch_speed", Args(key, 0, NoLimit, 0, TRUE, NoGeo), run,
                           EpochSpeedResponse(run, key))
    /\ UNCHANGED << source, calls, kin >>

\* GET /epochs/<epoch>/location
GetEpochLocation ==
    /\ last.route = "none"
    /\ \E run \in GetIssDataRuns(cache), key \in Keys, transformOk \in BOOLEAN,
          geo \in GeoOutcomes :
        /\ cache' = run.cache
        /\ last' = Handled("epoch_location", Args(key, 0, NoLimit, 0, transformOk, geo), run,
                           EpochLocationResponse(run, key, transformOk, geo))
    /\ UNCHANGED << source, calls, kin >>

\* GET /now
GetNow ==
    /\ last.route = "none"
    /\ \E run \in GetIssDataRuns(cache), nowTime \in Times, transformOk \in BOOLEAN,
          geo \in GeoOutcomes :
        /\ cache' = run.cache
        /\ last' = Handled("now", Args(<< >>, 0, NoLimit, nowTime, transformOk, geo), run,
                           NowResponse(run, nowTime, transformOk, geo))
    /\ UNCHANGED << source, calls, kin >>

\* the response goes out and the server waits for the next request
SendResponse ==
    /\ last.route # "none"
    /\ last' = NoRequest
    /\ UNCHANGED << cache, source, calls, kin >>

Next ==
    \/ GetIssData
    \/ GetEpochs
    \/ GetEpochDetail
    \/ GetEpochSpeed
    \/ GetEpochLocation
    \/ GetNow
    \/ SendResponse

Spec == Init /\ [][Next]_vars

\* ------------------------------ get_iss_data calls running concurrently
\* the call returns (its loop locals are gone): data when no exception is
\* pending, else what the except
\* clauses of parse_iss_data (line 67) and get_iss_data (line 86) make of it
Finish(call, data, exc) ==
    [call EXCEPT
        !.pc = "done", !.i = 0, !.acc = << >>,
        !.data = IF exc = "none" THEN data ELSE << >>,
        !.caught = IF exc \in ParseCatches \/ GetIssDataCatches(exc) THEN exc ELSE "none",
        !.raised = IF exc \in ParseCatches \/ GetIssDataCatches(exc) THEN "none" ELSE exc]

\* line 75: rd.hlen("iss_data")
CallHLen(p) ==
    /\ calls[p].pc = "idle"
    /\ \E fails \in BOOLEAN :
        calls' = [calls EXCEPT ![p] =
            IF fails THEN Finish([@ EXCEPT !.hlen = 0 - 1], << >>, "RedisError")
            ELSE [@ EXCEPT !.hlen = HLen(cache),
                           !.pc = IF CacheIsEmpty(HLen(cache)) THEN "fetch" ELSE "hvals"]]
    /\ UNCHANGED << cache, last, source, kin >>

\* lines 76-79 and 40-42: fetch, then xmltodict up to the loop
CallFetch(p) ==
    /\ calls[p].pc = "fetch"
    /\ \E resp \in { [failure |-> "none", text |-> source],
                     [failure |-> "RequestException", text |-> EmptyText] } :
        LET xml == FetchIssData(resp)
        IN  calls' = [calls EXCEPT ![p] =
                IF xml.kind = "empty" THEN Finish([@ EXCEPT !.xml = xml], << >>, "none")
                ELSE IF StateVectorsExc(xml) # "none"
                THEN Finish([@ EXCEPT !.xml = xml], << >>, StateVectorsExc(xml))
                ELSE [@ EXCEPT !.xml = xml, !.pc = "loop", !.i = 1, !.acc = << >>]]
    /\ UNCHANGED << cache, last, source, kin >>

\* lines 43-66: one turn of the loop, and the return after the last one
CallLoop(p) ==
    /\ calls[p].pc = "loop"
    /\ LET items == StateVectorItems(calls[p].xml)
           item == items[calls[p].i]
           entry == ParseEntry(item.val)
           acc == Append(calls[p].acc, entry)
       IN  IF ParseVecExc(item) # "none"
           THEN /\ calls' = [calls EXCEPT ![p] = Finish(@, << >>, ParseVecExc(item))]
                /\ cache' = cache
           ELSE \E fails \in BOOLEAN :
                IF fails
                THEN /\ calls' = [calls EXCEPT ![p] = Finish(@, << >>, "RedisError")]
                     /\ cache' = cache
                ELSE /\ cache' = HSet(cache, entry.epoch, JsonDumps(entry))
                     /\ calls' = [calls EXCEPT ![p] =
                            IF calls[p].i = Len(items)
                            THEN Finish([@ EXCEPT !.acc = acc], EpochsToDatetime(acc), "none")
                            ELSE [@ EXCEPT !.acc = acc, !.i = @ + 1]]
    /\ UNCHANGED << last, source, kin >>

\* lines 80-85: rd.hvals("iss_data")
CallHVals(p) ==
    /\ calls[p].pc = "hvals"
    /\ \E order \in Orders(cache), fails \in BOOLEAN :
        calls' = [calls EXCEPT ![p] =
            IF fails THEN Finish(@, << >>, "RedisError")
            ELSE Finish(@, ReadEntries(HVals(cache, order)), "none")]
    /\ UNCHANGED << cache, last, source, kin >>

\* the documents served to the concurrent calls: an ephemeris lists its
\* records in time order
TimeOrdered(vecs) ==
    \A i, j \in 1..Len(vecs) :
        (i < j /\ vecs[i] \in ValidVecs /\ vecs[j] \in ValidVecs)
            => Strptime(vecs[i].EPOCH) <= Strptime(vecs[j].EPOCH)

ConcDocuments == { d \in Documents : TimeOrdered(d.vecs) } \cup {GarbageText}

InitConc ==
    /\ cache = EmptyCache
    /\ last = NoRequest
    /\ source \in ConcDocuments
    /\ calls = [p \in Procs |-> IdleCall]
    /\ kin = NoKin

NextConc ==
    \E p \in Procs :
        \/ CallHLen(p)
        \/ CallFetch(p)
        \/ CallLoop(p)
        \/ CallHVals(p)

SpecConc == InitConc /\ [][NextConc]_vars

\* ------------------- get_iss_data called again and again, a changing source
\* what get_iss_data can do on cache c while the URL serves document doc: as
\* GetIssDataRuns, the fetch returning doc or failing
GetIssDataRunsOn(c, doc) ==
    { run \in GetIssDataRuns(c) : run.fetched => run.xml \in {doc, EmptyText} }

InitStore ==
    /\ cache = EmptyCache
    /\ last = NoRequest
    /\ source \in ConcDocuments
    /\ calls = [p \in Procs |-> IdleCall]
    /\ kin = NoKin

\* the document behind ISS_DATA_URL is replaced
SourceChanges ==
    /\ source' \in ConcDocuments \ {source}
    /\ UNCHANGED << cache, last, calls, kin >>

\* one call of get_iss_data(); last keeps its run until the next call
CallGetIssData ==
    /\ \E run \in GetIssDataRunsOn(cache, source) :
        /\ cache' = run.cache
        /\ last' = Handled("get_iss_data", NoArgs, run, Response(0, [message |-> ""], {}))
    /\ UNCHANGED << source, calls, kin >>

NextStore ==
    \/ SourceChanges
    \/ CallGetIssData

SpecStore == InitStore /\ [][NextStore]_vars

\* --------------------------- compute_speed and compute_average_speed alone
\* the velocity vectors of src/test_iss_tracker.py
TestVelocities == { << 1, 2, 2 >>, << 3, 4, 0 >>, << 6, 8, 0 >> }

SumOfSquares(v) == v[1] * v[1] + v[2] * v[2] + v[3] * v[3]

\* the velocity vectors handed to compute_speed: components of either sign,
\* the speed a whole number of km/s
Velocities ==
    { v \in ((0 - MaxSpeed)..MaxSpeed) \X ((0 - MaxSpeed)..MaxSpeed) \X ((0 - MaxSpeed)..MaxSpeed) :
        Sqrt(SumOfSquares(v)) * Sqrt(SumOfSquares(v)) = SumOfSquares(v) }

\* the datasets handed to compute_average_speed: the empty one included
KinEntries ==
    { [epoch |-> 0, position |-> SamplePayload.position, velocity |-> v] : v \in TestVelocities }

KinDatasets == SeqsUpTo(KinEntries, MaxRecords + 1)

InitKin ==
    /\ cache = EmptyCache
    /\ last = NoRequest
    /\ source = EmptyText
    /\ calls = [p \in Procs |-> IdleCall]
    /\ kin \in { [NoKin EXCEPT !.velocity = v, !.data = d] : v \in Velocities, d \in KinDatasets }

\* compute_speed(velocity)
CallComputeSpeed ==
    /\ kin.fn = "none"
    /\ kin' = [kin EXCEPT !.fn = "compute_speed", !.speed = ComputeSpeed(kin.velocity)]
    /\ UNCHANGED << cache, last, source, calls >>

\* compute_average_speed(data)
CallComputeAverageSpeed ==
    /\ kin.fn = "none"
    /\ kin' = [kin EXCEPT !.fn = "compute_average_speed",
                          !.average = ComputeAverageSpeed(kin.data)]
    /\ UNCHANGED << cache, last, source, calls >>

NextKin ==
    \/ CallComputeSpeed
    \/ CallComputeAverageSpeed

SpecKin == InitKin /\ [][NextKin]_vars

\* ------------------------------------------------------------------ claims
\* the request handled last fetched a batch of records into an empty cache
FetchedBatch ==
    /\ last.route # "none"
    /\ last.run.hlen = 0
    /\ last.run.fetched
    /\ last.run.xml.kind = "xml"

\* C1: if any record of a fetched batch is malformed, at whatever position,
\* get_iss_data returns an empty result and, starting from an empty cache, the
\* cache is still empty after the call.
C1_MalformedBatchLeavesCacheEmpty ==
    ( /\ FetchedBatch
      /\ \E i \in 1..Len(last.run.xml.vecs) : last.run.xml.vecs[i] \in MalformedVecs )
        => ( last.run.data = << >> /\ cache = EmptyCache )

\* C2: with an empty cache and a successful fetch of N >= 1 valid records with
\* pairwise distinct epochs (and a cache that accepts every write), the call
\* returns exactly N entries, one per record, and the cache then holds exactly
\* N fields, one keyed by each record's epoch.
C2_ValidBatchFullyCached ==
    LET vecs == last.run.xml.vecs
        N == Len(vecs)
    IN  ( /\ FetchedBatch
          /\ last.run.caught # "RedisError"
          /\ N >= 1
          /\ \A i \in 1..N : vecs[i] \in ValidVecs
          /\ \A i, j \in 1..N : vecs[i].EPOCH = vecs[j].EPOCH => i = j )
            => ( /\ Len(last.run.data) = N
                 /\ \A i \in 1..N :
                      /\ last.run.data[i].epoch = Strptime(vecs[i].EPOCH)
                      /\ last.run.data[i].position[1] = vecs[i].X.text.val
                      /\ last.run.data[i].velocity[3] = vecs[i].Z_DOT.text.val
                 /\ HLen(cache) = N
                 /\ DOMAIN cache = { IsoFormat(Strptime(vecs[i].EPOCH)) : i \in 1..N } )

\* C3: when two or more get_iss_data calls run concurrently, each of them
\* having seen an empty cache and fetched the same valid document (the cache
\* accepting every write), then once all calls have finished the cache is
\* what one call running alone leaves: one field per epoch, with that record's
\* content.
PopulatedAlone(p) ==
    /\ calls[p].pc = "done"
    /\ calls[p].hlen = 0
    /\ calls[p].xml = source
    /\ calls[p].caught # "RedisError"

C3_ConcurrentPopulationConverges ==
    ( /\ source.kind = "xml"
      /\ Len(source.vecs) >= 1
      /\ \A i \in 1..Len(source.vecs) : source.vecs[i] \in ValidVecs
      /\ NumProcs >= 2
      /\ \A p \in Procs : PopulatedAlone(p) )
        => ( /\ cache = ParseIssData(source, EmptyCache, 0).cache
             /\ \A k \in DOMAIN cache :
                  \E i \in 1..Len(source.vecs) :
                      /\ k = IsoFormat(Strptime(source.vecs[i].EPOCH))
                      /\ cache[k] = JsonDumps(ParseEntry(source.vecs[i]))
             /\ Len(source.vecs) >= 2 =>
                  \A i \in 1..Len(source.vecs) :
                      IsoFormat(Strptime(source.vecs[i].EPOCH)) \in DOMAIN cache )

\* all calls saw the empty cache and each wrote the whole batch
C3_Witness ==
    /\ source.kind = "xml"
    /\ \A i \in 1..Len(source.vecs) : source.vecs[i] \in ValidVecs
    /\ NumProcs >= 2
    /\ \A p \in Procs : PopulatedAlone(p) /\ Len(calls[p].data) >= 2
    /\ HLen(cache) >= 2

\* C4: whenever the cache holds at least one field when get_iss_data checks it
\* (and the cache answers), the call fetches nothing, writes nothing and
\* returns exactly one entry per cached field, whatever the source now serves.
C4_Step ==
    ( /\ last'.route # "none"
      /\ HLen(cache) >= 1
      /\ last'.run.hlen >= 1
      /\ last'.run.caught = "none" )
        => ( /\ ~last'.run.fetched
             /\ last'.run.writes = 0
             /\ cache' = cache
             /\ Len(last'.run.data) = HLen(cache)
             /\ \A k \in DOMAIN cache :
                  \E i \in 1..Len(last'.run.data) :
                      /\ IsoFormat(last'.run.data[i].epoch) = k
                      /\ last'.run.data[i].position = cache[k][3]
                      /\ last'.run.data[i].velocity = cache[k][4] )

C4_PopulatedCacheIsServed == [][C4_Step]_vars

\* a request answered from a cache of two or more fields
C4_Witness ==
    /\ last.route # "none"
    /\ last.run.hlen >= 2
    /\ ~last.run.fetched
    /\ Len(last.run.data) = last.run.hlen

\* C5: get_iss_data never raises: when the fetch fails, when parsing fails, or
\* when a cache operation fails (size check, enumeration, a write at any point
\* of the population) it returns an empty list; a failed fetch leaves the
\* cache unchanged.
C5_Step ==
    last'.route # "none"
        => ( /\ last'.run.raised = "none"
             /\ last'.run.caught # "none" => last'.run.data = << >>
             /\ (last'.run.fetched /\ last'.run.xml.kind = "empty")
                    => (last'.run.data = << >> /\ cache' = cache /\ last'.run.writes = 0) )

C5_NeverRaises == [][C5_Step]_vars

\* a cache write failed after an earlier write of the same call went through
C5_Witness ==
    /\ last.route # "none"
    /\ last.run.caught = "RedisError"
    /\ last.run.writes >= 1
    /\ last.run.data = << >>

\* the request handled last looked key k up in the dataset its get_iss_data
\* call returned
LookupRoutes == { "epoch_detail", "epoch_speed", "epoch_location" }

Truncated(e) == IsoFormatSeconds(e.epoch)

\* C6 as stated: for every entry e of the dataset (its epochs pairwise
\* distinct, as the data model requires), /epochs/{k} with k the epoch of e
\* truncated to whole seconds returns 200 with e's own epoch, position and
\* velocity.
C6_LookupReturnsOwnEntry ==
    ( /\ last.route = "epoch_detail"
      /\ \A i, j \in 1..Len(last.run.data) :
            last.run.data[i].epoch = last.run.data[j].epoch => i = j )
        => \A i \in 1..Len(last.run.data) :
              Truncated(last.run.data[i]) = last.args.key
                  => ( /\ last.status = 200
                       /\ last.body.Epoch = Truncated(last.run.data[i])
                       /\ last.body.Position = last.run.data[i].position
                       /\ last.body.Velocity = last.run.data[i].velocity )

\* C6 amended: such a request returns 200 with the truncated epoch, position
\* and velocity of the first entry of the dataset, in the order get_iss_data
\* returned it, whose truncated epoch is k; these are e's own whenever no
\* other entry of the dataset has its epoch in the same whole second.
C6_LookupReturnsFirstOfSecond ==
    last.route = "epoch_detail"
        => \A i \in 1..Len(last.run.data) :
              Truncated(last.run.data[i]) = last.args.key
                  => ( /\ last.status = 200
                       /\ last.body.Epoch = last.args.key
                       /\ \E f \in 1..i :
                            /\ Truncated(last.run.data[f]) = last.args.key
                            /\ \A j \in 1..(f - 1) :
                                 Truncated(last.run.data[j]) # last.args.key
                            /\ last.body.Position = last.run.data[f].position
                            /\ last.body.Velocity = last.run.data[f].velocity
                       /\ ( \A j \in 1..Len(last.run.data) :
                              Truncated(last.run.data[j]) = last.args.key => j = i )
                            => ( /\ last.body.Position = last.run.data[i].position
                                 /\ last.body.Velocity = last.run.data[i].velocity ) )

\* a lookup that found its entry behind another one, in a dataset holding an
\* entry of a different second with a fractional epoch
C6_Witness ==
    /\ last.route = "epoch_detail"
    /\ last.status = 200
    /\ \E i, j \in 1..Len(last.run.data) :
         /\ i > 1
         /\ Truncated(last.run.data[i]) = last.args.key
         /\ \A x \in 1..Len(last.run.data) :
              Truncated(last.run.data[x]) = last.args.key => x = i
         /\ IsoFormat(last.run.data[i].epoch) # last.args.key
         /\ Truncated(last.run.data[j]) # last.args.key

\* C7 as stated: for a key that is the truncated epoch of no stored entry,
\* each of the three lookup routes returns 404 "Epoch not found" and the cache
\* is unchanged by the lookup (here: by a lookup whose get_iss_data call met
\* no failure at all).
C7_StepAsStated ==
    ( /\ last'.route \in LookupRoutes
      /\ last'.run.caught = "none"
      /\ \A i \in 1..Len(last'.run.data) : Truncated(last'.run.data[i]) # last'.args.key )
        => ( /\ last'.status = 404
             /\ last'.body = [message |-> "Epoch not found"]
             /\ cache' = cache )

C7_NotFoundLeavesCache == [][C7_StepAsStated]_vars

\* C7 amended: such a request returns 404 "Epoch not found"; it leaves the
\* cache unchanged whenever the cache held a field when the request checked
\* it, the size check failed or the fetch returned nothing, and otherwise
\* changes it only through the population its get_iss_data call performs on
\* the empty cache.
C7_StepAmended ==
    ( /\ last'.route \in LookupRoutes
      /\ \A i \in 1..Len(last'.run.data) : Truncated(last'.run.data[i]) # last'.args.key )
        => ( /\ last'.status = 404
             /\ last'.body = [message |-> "Epoch not found"]
             /\ (HLen(cache) >= 1 \/ last'.run.hlen # 0 \/ last'.run.xml.kind = "empty")
                    => cache' = cache
             /\ cache' # cache
                    => ( /\ cache = EmptyCache
                         /\ last'.run.fetched
                         /\ HLen(cache') = Cardinality({ last'.run.xml.vecs[w].EPOCH :
                                                           w \in 1..last'.run.writes }) ) )

C7_NotFoundWritesOnlyByPopulation == [][C7_StepAmended]_vars

\* a lookup of an absent key answered from a populated cache, which it left
\* as it was
C7_Witness ==
    /\ last.route \in LookupRoutes
    /\ last.status = 404
    /\ last.run.hlen >= 2
    /\ Len(last.run.data) >= 2
    /\ cache = last.run.cache

\* C8: whenever get_iss_data yields an empty list (failed fetch, failed parse
\* or cache error), /now returns 500 "No ISS data available" and does not call
\* find_closest_epoch on the empty list.
C8_NowOnEmptyDataset ==
    (last.route = "now" /\ last.run.data = << >>)
        => ( /\ last.status = 500
             /\ last.body = [message |-> "No ISS data available"]
             /\ "find_closest_epoch" \notin last.calls )

\* /now answered after a parse that failed
C8_Witness ==
    /\ last.route = "now"
    /\ last.run.data = << >>
    /\ last.run.fetched
    /\ last.run.caught \in ParseCatches
    /\ last.status = 500

\* C9: for every non-empty dataset and every timestamp t, find_closest_epoch
\* returns an entry of the dataset whose absolute epoch distance to t is not
\* greater than that of any other entry (and /now reports that entry).
Nearest(data, i, t) ==
    /\ i \in 1..Len(data)
    /\ \A j \in 1..Len(data) : Abs(data[i].epoch - t) <= Abs(data[j].epoch - t)

C9_ClosestEpochIsNearest ==
    (last.route = "now" /\ last.run.data # << >>)
        => ( /\ Nearest(last.run.data, FindClosestEpoch(last.run.data, last.args.now),
                        last.args.now)
             /\ last.status = 200
                  => \E i \in 1..Len(last.run.data) :
                        /\ Nearest(last.run.data, i, last.args.now)
                        /\ last.body.ClosestEpoch = Truncated(last.run.data[i])
                        /\ last.body.Position = last.run.data[i].position
                        /\ last.body.Velocity = last.run.data[i].velocity )

\* /now answered with an entry that is neither the first of the dataset nor
\* the earliest, and strictly nearer than another one
C9_Witness ==
    /\ last.route = "now"
    /\ last.status = 200
    /\ Len(last.run.data) >= 2
    /\ FindClosestEpoch(last.run.data, last.args.now) > 1
    /\ \E j \in 1..Len(last.run.data) :
         /\ last.run.data[j].epoch
              < last.run.data[FindClosestEpoch(last.run.data, last.args.now)].epoch
         /\ Abs(last.run.data[j].epoch - last.args.now)
              > Abs(last.run.data[FindClosestEpoch(last.run.data, last.args.now)].epoch
                    - last.args.now)

\* C10: for every dataset (in any enumeration order), every offset >= 0 and
\* every limit >= 0, /epochs does not fail and returns exactly the entries at
\* positions offset .. offset+limit-1 of the dataset sorted ascending by epoch,
\* truncated at the end of the dataset: at most limit entries, none when the
\* offset is at or beyond the dataset size.
Earlier(data, e) == Cardinality({ x \in 1..Len(data) : data[x].epoch < e })

NotLater(data, e) == Cardinality({ x \in 1..Len(data) : data[x].epoch <= e })

SliceLength(n, offset, limit) ==
    IF offset >= n THEN 0
    ELSE IF limit < n - offset THEN limit ELSE n - offset

C10_EpochsIsSortedSlice ==
    ( /\ last.route = "epochs"
      /\ last.args.offset >= 0
      /\ last.args.limit.given
      /\ last.args.limit.val >= 0 )
        => ( /\ last.status = 200
             /\ Len(last.body.lines)
                  = SliceLength(Len(last.run.data), last.args.offset, last.args.limit.val)
             /\ Len(last.body.lines) <= last.args.limit.val
             /\ \A j \in 1..Len(last.body.lines) :
                  \E i \in 1..Len(last.run.data) :
                      /\ last.body.lines[j] = Truncated(last.run.data[i])
                      /\ Earlier(last.run.data, last.run.data[i].epoch)
                            <= last.args.offset + j - 1
                      /\ last.args.offset + j - 1
                            < NotLater(last.run.data, last.run.data[i].epoch) )

\* /epochs on a dataset enumerated out of order, with an offset and a limit
\* that reaches past the end
C10_Witness ==
    /\ last.route = "epochs"
    /\ last.status = 200
    /\ Len(last.run.data) >= 2
    /\ Truncated(last.run.data[1]) # Truncated(last.run.data[2])
    /\ last.run.data[1].epoch > last.run.data[2].epoch
    /\ last.args.offset = 1
    /\ last.args.limit.given
    /\ last.args.limit.val = 2
    /\ Len(last.body.lines) = Len(last.run.data) - 1

\* C11: when the geocoder fails for an epoch that exists in the dataset (the
\* transform having delivered the coordinates to look up),
\* /epochs/{epoch}/location returns 200 with the line "Geoposition:
\* Geoposition lookup failed"; when the geocoder finds nothing the line is
\* "Geoposition: Geoposition not found"; no response given after the geocoder
\* was called has a status other than 200.
GeocoderAsked ==
    /\ last.route = "epoch_location"
    /\ FirstMatch(last.run.data, last.args.key) # 0
    /\ last.args.transformOk

C11_GeocodingFailureDegrades ==
    /\ (GeocoderAsked /\ last.args.geo.kind = "failure")
            => ( /\ last.status = 200
                 /\ last.body.Geoposition = "Geoposition lookup failed" )
    /\ (GeocoderAsked /\ last.args.geo.kind = "notfound")
            => ( /\ last.status = 200
                 /\ last.body.Geoposition = "Geoposition not found" )
    /\ (last.route = "epoch_location" /\ "reverse_geocode" \in last.calls)
            => last.status = 200

\* a location request for a stored epoch whose geocoder lookup failed
C11_Witness ==
    /\ GeocoderAsked
    /\ last.args.geo.kind = "failure"
    /\ "reverse_geocode" \in last.calls
    /\ last.status = 200

\* the (epoch, position, velocity) triples of a dataset
Triples(data) ==
    { << data[i].epoch, data[i].position, data[i].velocity >> : i \in 1..Len(data) }

\* C12: round trip through the cache: the dataset returned by a get_iss_data
\* call that populated the cache (from a batch whose records have pairwise
\* distinct epochs) and the dataset the next call reads from the cache,
\* whatever the order HVALS enumerates in, contain the same set of (epoch,
\* position, velocity) triples.
C12_CacheRoundTrip ==
    ( /\ FetchedBatch
      /\ last.run.writes >= 1
      /\ \A i, j \in 1..Len(last.run.xml.vecs) :
            (i # j /\ "EPOCH" \in DOMAIN last.run.xml.vecs[i]
                   /\ "EPOCH" \in DOMAIN last.run.xml.vecs[j])
                => last.run.xml.vecs[i].EPOCH # last.run.xml.vecs[j].EPOCH )
        => \A order \in Orders(cache) :
              Triples(ReadEntries(HVals(cache, order))) = Triples(last.run.data)

\* C13: every request to one of the five routes, whatever the fetch, the
\* parse, the cache, the transform and the geocoder do, ends with a response
\* text and a status among 200, 404 and 500; no exception leaves
\* get_iss_data or the handler.
Routes == { "epochs", "epoch_detail", "epoch_speed", "epoch_location", "now" }

C13_EveryRequestIsAnswered ==
    last.route \in Routes
        => ( /\ last.status \in {200, 404, 500}
             /\ last.run.raised = "none"
             /\ "uncaught" \notin DOMAIN last.body
             /\ DOMAIN last.body # {} )

\* a request whose transform failed after a cache read, answered with 500
C13_Witness ==
    /\ last.route \in Routes
    /\ last.run.hlen >= 1
    /\ ~last.args.transformOk
    /\ last.status = 500
    /\ last.body.exc = "TransformError"

\* C14: for every velocity vector v, compute_speed(v) is the Euclidean norm
\* of v: the non-negative number whose square is vx^2 + vy^2 + vz^2; in
\* particular (1,2,2) gives 3, (3,4,0) gives 5 and (6,8,0) gives 10.
C14_SpeedIsEuclideanNorm ==
    kin.fn = "compute_speed"
        => ( /\ kin.speed >= 0
             /\ kin.speed * kin.speed
                  = kin.velocity[1] * kin.velocity[1] + kin.velocity[2] * kin.velocity[2]
                      + kin.velocity[3] * kin.velocity[3]
             /\ kin.velocity = << 1, 2, 2 >> => kin.speed = 3
             /\ kin.velocity = << 3, 4, 0 >> => kin.speed = 5
             /\ kin.velocity = << 6, 8, 0 >> => kin.speed = 10 )

\* compute_speed applied to a vector with a negative component and a third
\* component that counts
C14_Witness ==
    /\ kin.fn = "compute_speed"
    /\ kin.velocity = << 0 - 2, 3, 0 - 6 >>
    /\ kin.speed = 7

\* C15: for every dataset, compute_average_speed returns the arithmetic mean
\* of the entries' speeds (the sum of the Euclidean norms of their velocities
\* divided by their number), and for the empty dataset it returns 0.0 and
\* divides by nothing.
Norm(v) == CHOOSE r \in 0..(3 * MaxSpeed) : r * r = v[1] * v[1] + v[2] * v[2] + v[3] * v[3]

RECURSIVE TotalSpeed(_, _)
TotalSpeed(data, n) ==
    IF n = 0 THEN 0 ELSE TotalSpeed(data, n - 1) + Norm(data[n].velocity)

C15_AverageIsArithmeticMean ==
    kin.fn = "compute_average_speed"
        => ( /\ kin.average.den # 0
             /\ kin.average.num * Len(kin.data)
                  = kin.average.den * TotalSpeed(kin.data, Len(kin.data))
             /\ kin.data = << >>
                  => (kin.average.num = 0 /\ Format2f(kin.average) = 0) )

\* the average of three entries of speeds 3, 3 and 5: 11/3, printed as 3.67
C15_Witness ==
    /\ kin.fn = "compute_average_speed"
    /\ Len(kin.data) = 3
    /\ kin.average = [num |-> 11, den |-> 3]
    /\ Format2f(kin.average) = 367

\* C16: when two entries of the dataset are equally close to the reference
\* time, /now reports the one with the earlier epoch, whatever order the cache
\* enumerated its fields in.
C16_TieGoesToEarlierEpoch ==
    ( /\ last.route = "now"
      /\ last.status = 200
      /\ last.run.hlen >= 1 )
        => \A i, j \in 1..Len(last.run.data) :
              ( /\ Nearest(last.run.data, i, last.args.now)
                /\ Nearest(last.run.data, j, last.args.now)
                /\ last.run.data[i].epoch < last.run.data[j].epoch )
                  => ( /\ last.body.ClosestEpoch = Truncated(last.run.data[i])
                       /\ last.body.Position = last.run.data[i].position
                       /\ last.body.Velocity = last.run.data[i].velocity )

\* C17: when get_iss_data calls run concurrently over a valid source of N
\* records (with pairwise distinct epochs), every non-empty dataset a call
\* returns holds all N records of the source.
C17_NoPartialDataset ==
    ( /\ source.kind = "xml"
      /\ \A i \in 1..Len(source.vecs) : source.vecs[i] \in ValidVecs
      /\ \A i, j \in 1..Len(source.vecs) :
            source.vecs[i].EPOCH = source.vecs[j].EPOCH => i = j )
        => \A p \in Procs :
              (calls[p].pc = "done" /\ calls[p].data # << >>)
                  => Triples(calls[p].data)
                        = Triples(EpochsToDatetime(
                                    [i \in 1..Len(source.vecs) |-> ParseEntry(source.vecs[i])]))

\* C18: the store recovers from a failed population: when a get_iss_data call
\* that saw an empty cache returned nothing (failed fetch, malformed record,
\* cache write error part-way), the next call, made while the source serves
\* a valid document (two or more records, pairwise distinct epochs) and met
\* by no fetch or cache failure, returns the complete dataset of that
\* document.
FailedPopulation(run) ==
    /\ run.hlen = 0
    /\ run.fetched
    /\ run.data = << >>

ValidSource(doc) ==
    /\ doc.kind = "xml"
    /\ Len(doc.vecs) >= 2
    /\ \A i \in 1..Len(doc.vecs) : doc.vecs[i] \in ValidVecs
    /\ \A i, j \in 1..Len(doc.vecs) : doc.vecs[i].EPOCH = doc.vecs[j].EPOCH => i = j

C18_Step ==
    ( /\ last.route = "get_iss_data"
      /\ FailedPopulation(last.run)
      /\ last'.route = "get_iss_data"
      /\ source' = source
      /\ ValidSource(source)
      /\ last'.run.hlen >= 0
      /\ last'.run.caught = "none"
      /\ last'.run.fetched => last'.run.xml = source )
        => Triples(last'.run.data)
              = Triples(EpochsToDatetime(
                          [i \in 1..Len(source.vecs) |-> ParseEntry(source.vecs[i])]))

C18_StoreRecovers == [][C18_Step]_vars

\* C19: for every offset >= 0 and every limit <= 0 (zero or negative),
\* /epochs returns no epoch entries.
C19_NoEntriesForNonPositiveLimit ==
    ( /\ last.route = "epochs"
      /\ last.status = 200
      /\ last.args.offset >= 0
      /\ last.args.limit.given
      /\ last.args.limit.val <= 0 )
        => Len(last.body.lines) = 0

====
